---- MODULE Spec2Model ----
(***************************************************************************)
(* Model of the teaching snippets of the repository:                       *)
(*   - Section-I/deck (and deck): Deck::new, Deck::shuffle, Deck::deal     *)
(*   - Section-II/bank: Account and Bank                                   *)
(* Two specifications share the module: SpecDeck drives a Deck, SpecBank   *)
(* drives Accounts and a Bank.  The variables lastOp, lastN, pre*, ret*    *)
(* record the last call (its argument, the state before it and the value   *)
(* it returned) so that the contract of one call is a state predicate.     *)
(***************************************************************************)
EXTENDS Integers, Sequences, FiniteSets, TLC

VARIABLES
    build,      \* "debug" (overflow checks on) or "release" (wrapping)
    panicked,   \* "" while running, else the kind of the panic that ended the program
    ops,        \* number of calls made so far
    lastOp,     \* name of the last call
    lastN,      \* numeric argument of the last call
    \* ---- deck program
    cards,      \* Deck.cards
    hands,      \* the Vecs returned by deal so far, oldest first
    preCards,   \* Deck.cards before the last call
    preHands,   \* hands before the last call
    \* ---- bank program
    locals,     \* accounts owned by local variables of the caller
    bank,       \* Bank.account
    preLocals,  \* locals before the last call
    preBank,    \* Bank.account before the last call
    lastIdx,    \* index in locals of the account the last call acted on
    retInt,     \* i32 returned by the last call
    retStrs,    \* String(s) returned by the last call
    printed     \* line the last call wrote to stdout, "" if none

vars == <<build, panicked, ops, lastOp, lastN, cards, hands, preCards, preHands,
          locals, bank, preLocals, preBank, lastIdx, retInt, retStrs, printed>>

deckVars == <<cards, hands, preCards, preHands>>
bankVars == <<locals, bank, preLocals, preBank, lastIdx, retInt, retStrs, printed>>

\* ------------------------------------------------------------------ bounds
MaxOps == 4          \* shuffle and deal calls made on one deck
MaxTxns == 2         \* deposit and withdraw calls made in one bank program
MaxAccounts == 2     \* accounts created in one bank program
MaxSeed == 3         \* random streams the shuffle may draw from: 0..MaxSeed

Builds == {"debug", "release"}

\* ------------------------------------------------------------ generic helpers
Range(s) == {s[i] : i \in 1..Len(s)}

Count(c, s) == Cardinality({i \in 1..Len(s) : s[i] = c})

RECURSIVE Flatten(_)
Flatten(ss) == IF ss = <<>> THEN <<>> ELSE Head(ss) \o Flatten(Tail(ss))

\* ======================================================================
\*                                DECK
\* ======================================================================
suits == <<"hearts", "spades", "clubs", "diamonds">>

values == <<"ace", "two", "three", "four", "five", "six", "seven", "eight",
            "nine", "ten", "jack", "queen", "king">>

\* format!("{} of {}", value, suit)
FormatCard(value, suit) == value \o " of " \o suit

\* the inner loop: for value in values { cards.push(format!(..)) }, from index j
RECURSIVE PushValues(_, _, _)
PushValues(acc, suit, j) ==
    IF j > Len(values) THEN acc
    ELSE PushValues(Append(acc, FormatCard(values[j], suit)), suit, j + 1)

\* the outer loop: for suit in suits { ... }, from index i
RECURSIVE PushSuits(_, _)
PushSuits(acc, i) ==
    IF i > Len(suits) THEN acc
    ELSE PushSuits(PushValues(acc, suits[i], 1), i + 1)

\* a plausible slip: the two loops nested the other way round
RECURSIVE PushSuitsOf(_, _, _)
PushSuitsOf(acc, value, i) ==
    IF i > Len(suits) THEN acc
    ELSE PushSuitsOf(Append(acc, FormatCard(value, suits[i])), value, i + 1)

RECURSIVE PushValuesOuter(_, _)
PushValuesOuter(acc, j) ==
    IF j > Len(values) THEN acc
    ELSE PushValuesOuter(PushSuitsOf(acc, values[j], 1), j + 1)

DeckNewValueMajor == PushValuesOuter(<<>>, 1)

\* Deck::new(): let mut cards = vec![]; the loops; Deck { cards }
DeckNew == PushSuits(<<>>, 1)

\* slice.swap(a, b) on 0-based indices
Swap(v, a, b) ==
    [v EXCEPT ![a + 1] = v[b + 1], ![b + 1] = v[a + 1]]

\* the index the random stream `seed` yields for gen_index(rng, i + 1): in 0..i
GenIndex(seed, i) == (seed * i) % (i + 1)

\* SliceRandom::shuffle: for i in (1..len).rev() { self.swap(i, gen_index(rng, i + 1)) }
RECURSIVE ShuffleFrom(_, _, _)
ShuffleFrom(v, seed, i) ==
    IF i < 1 THEN v
    ELSE ShuffleFrom(Swap(v, i, GenIndex(seed, i)), seed, i - 1)

\* a plausible slip: the swap writes one slot only and so duplicates a card
RECURSIVE OverwriteFrom(_, _, _)
OverwriteFrom(v, seed, i) ==
    IF i < 1 THEN v
    ELSE OverwriteFrom([v EXCEPT ![i + 1] = v[GenIndex(seed, i) + 1]], seed, i - 1)

ShuffleOverwriting(v, seed) == OverwriteFrom(v, seed, Len(v) - 1)

\* self.cards.shuffle(&mut rng) with the random stream `seed`
ShuffleCards(v, seed) == ShuffleFrom(v, seed, Len(v) - 1)

\* usize `a - b`.  An overflowing subtraction panics when overflow checks are
\* on; otherwise it wraps to 2^64 + (a - b), kept here as the negative offset
\* a - b with wrapped = TRUE (2^64 itself is not representable).
UsizeSub(a, b, bld) ==
    IF a >= b THEN [panic |-> "", wrapped |-> FALSE, val |-> a - b]
    ELSE IF bld = "debug"
         THEN [panic |-> "subtract with overflow", wrapped |-> FALSE, val |-> 0]
         ELSE [panic |-> "", wrapped |-> TRUE, val |-> a - b]

\* Vec::split_off(at): panics if at > len; else self keeps [0, at) and
\* the elements [at, len) are returned
SplitOff(v, at) ==
    IF at.wrapped \/ at.val > Len(v)
    THEN [panic |-> "split_off: at > len", rest |-> v, hand |-> <<>>]
    ELSE [panic |-> "",
          rest  |-> SubSeq(v, 1, at.val),
          hand  |-> SubSeq(v, at.val + 1, Len(v))]

\* a plausible slip: a saturating subtraction, which deals what is left
DealSaturating(v, num_card, bld) ==
    SplitOff(v, [panic |-> "", wrapped |-> FALSE,
                 val |-> IF Len(v) >= num_card THEN Len(v) - num_card ELSE 0])

\* a plausible slip: the split index is one too far
DealOffByOne(v, num_card, bld) ==
    LET at == UsizeSub(Len(v), num_card, bld)
    IN  IF at.panic # "" THEN [panic |-> at.panic, rest |-> v, hand |-> <<>>]
        ELSE IF num_card > 0 /\ ~at.wrapped
             THEN SplitOff(v, [at EXCEPT !.val = at.val + 1])
             ELSE SplitOff(v, at)

\* a plausible slip: deal returns a copy of the tail and leaves the deck whole
DealCopying(v, num_card, bld) ==
    LET at == UsizeSub(Len(v), num_card, bld)
        r  == SplitOff(v, at)
    IN  IF at.panic # "" THEN [panic |-> at.panic, rest |-> v, hand |-> <<>>]
        ELSE [r EXCEPT !.rest = v]

\* self.cards.split_off(self.cards.len() - num_card)
DealCards(v, num_card, bld) ==
    LET at == UsizeSub(Len(v), num_card, bld)
    IN  IF at.panic # "" THEN [panic |-> at.panic, rest |-> v, hand |-> <<>>]
        ELSE SplitOff(v, at)

\* the hand sizes the caller asks for
DealSizes == {0, 1, 5, Len(suits) * Len(values), Len(suits) * Len(values) + 1}

InitDeck ==
    /\ build \in Builds
    /\ panicked = ""
    /\ ops = 0
    /\ lastOp = "none"
    /\ lastN = 0
    /\ cards = <<>>
    /\ hands = <<>>
    /\ preCards = <<>>
    /\ preHands = <<>>
    /\ locals = <<>>
    /\ bank = <<>>
    /\ preLocals = <<>>
    /\ preBank = <<>>
    /\ lastIdx = 0
    /\ retInt = 0
    /\ retStrs = <<>>
    /\ printed = ""

\* let mut dec = Deck::new();
New ==
    /\ lastOp = "none"
    /\ panicked = ""
    /\ cards' = DeckNew
    /\ preCards' = cards
    /\ preHands' = hands
    /\ lastOp' = "new"
    /\ UNCHANGED <<build, panicked, ops, lastN, hands>>
    /\ UNCHANGED bankVars

\* dec.shuffle();
Shuffle ==
    /\ lastOp # "none"
    /\ panicked = ""
    /\ ops < MaxOps
    /\ \E seed \in 0..MaxSeed :
          /\ cards' = ShuffleCards(cards, seed)
          /\ lastN' = seed
    /\ preCards' = cards
    /\ preHands' = hands
    /\ lastOp' = "shuffle"
    /\ ops' = ops + 1
    /\ UNCHANGED <<build, panicked, hands>>
    /\ UNCHANGED bankVars

\* let cards = dec.deal(num_card);
Deal ==
    /\ lastOp # "none"
    /\ panicked = ""
    /\ ops < MaxOps
    /\ \E num_card \in DealSizes :
          LET r == DealCards(cards, num_card, build)
          IN  /\ lastN' = num_card
              /\ panicked' = r.panic
              /\ cards' = r.rest
              /\ hands' = IF r.panic = "" THEN Append(hands, r.hand) ELSE hands
    /\ preCards' = cards
    /\ preHands' = hands
    /\ lastOp' = "deal"
    /\ ops' = ops + 1
    /\ UNCHANGED build
    /\ UNCHANGED bankVars

NextDeck == New \/ Shuffle \/ Deal

SpecDeck == InitDeck /\ [][NextDeck]_vars

\* ======================================================================
\*                                BANK
\* ======================================================================
I32_MAX == 2147483647
I32_MIN == (-I32_MAX) - 1

\* i32 `a + b`: panics on overflow when overflow checks are on, else wraps
\* modulo 2^32 (computed without leaving the 32-bit range)
I32Add(a, b, bld) ==
    IF b >= 0 /\ a > I32_MAX - b
    THEN IF bld = "debug" THEN [panic |-> "add with overflow", val |-> a]
         ELSE [panic |-> "", val |-> ((a - I32_MAX) - 1) + ((b - I32_MAX) - 1)]
    ELSE IF b < 0 /\ a < I32_MIN - b
    THEN IF bld = "debug" THEN [panic |-> "add with overflow", val |-> a]
         ELSE [panic |-> "", val |-> ((a + I32_MAX) + 1) + ((b + I32_MAX) + 1)]
    ELSE [panic |-> "", val |-> a + b]

\* i32 `a - b`: panics on overflow when overflow checks are on, else wraps
I32Sub(a, b, bld) ==
    IF b > 0 /\ a < I32_MIN + b
    THEN IF bld = "debug" THEN [panic |-> "subtract with overflow", val |-> a]
         ELSE [panic |-> "", val |-> ((a + I32_MAX) + 1) + ((I32_MAX - b) + 1)]
    ELSE IF b < 0 /\ a > I32_MAX + b
    THEN IF bld = "debug" THEN [panic |-> "subtract with overflow", val |-> a]
         ELSE [panic |-> "", val |-> ((a - I32_MAX) - 1) - ((b + I32_MAX) + 1)]
    ELSE [panic |-> "", val |-> a - b]

\* Display of an integer: decimal digits, "-" before a negative one
Digits == <<"0", "1", "2", "3", "4", "5", "6", "7", "8", "9">>

RECURSIVE NatToStr(_)
NatToStr(n) ==
    IF n < 10 THEN Digits[n + 1]
    ELSE NatToStr(n \div 10) \o Digits[(n % 10) + 1]

IntToStr(n) ==
    IF n >= 0 THEN NatToStr(n)
    ELSE LET d    == (10 - (n % 10)) % 10
             rest == -((n + d) \div 10)
         IN  "-" \o (IF rest = 0 THEN "" ELSE NatToStr(rest)) \o Digits[d + 1]

\* Account::new(id, holder)
AccountNew(id, holder) == [id |-> id, balance |-> 0, holder |-> holder]

\* Account::deposit: self.balance += amount; self.balance
AccountDeposit(acc, amount, bld) ==
    LET r == I32Add(acc.balance, amount, bld)
    IN  IF r.panic # "" THEN [panic |-> r.panic, acc |-> acc, ret |-> 0, out |-> ""]
        ELSE [panic |-> "", acc |-> [acc EXCEPT !.balance = r.val],
              ret |-> r.val, out |-> ""]

\* Account::withdraw
AccountWithdraw(acc, amount, bld) ==
    IF acc.balance >= amount
    THEN LET r == I32Sub(acc.balance, amount, bld)
         IN  IF r.panic # ""
             THEN [panic |-> r.panic, acc |-> acc, ret |-> 0, out |-> ""]
             ELSE [panic |-> "", acc |-> [acc EXCEPT !.balance = r.val],
                   ret |-> r.val, out |-> ""]
    ELSE [panic |-> "", acc |-> acc, ret |-> acc.balance,
          out |-> "Cannot withdraw due to insufficient funds"]

\* Account::summary
AccountSummary(acc) ==
    "Account " \o IntToStr(acc.id) \o ": Holder: " \o acc.holder
        \o ", Balance: " \o IntToStr(acc.balance)

\* a plausible slip: the account is put in front of the others
AddAccountInFront(accounts, account) == <<account>> \o accounts

\* Bank::add_account: self.account.push(account)
AddAccountTo(accounts, account) == Append(accounts, account)

\* Bank::total_balance: iter().map(|acc| acc.balance).sum(), a left fold of
\* i32 additions from 0
RECURSIVE SumFrom(_, _, _, _)
SumFrom(accounts, k, acc, bld) ==
    IF k > Len(accounts) THEN [panic |-> "", val |-> acc]
    ELSE LET r == I32Add(acc, accounts[k].balance, bld)
         IN  IF r.panic # "" THEN r
             ELSE SumFrom(accounts, k + 1, r.val, bld)

BankTotalBalance(accounts, bld) == SumFrom(accounts, 1, 0, bld)

\* Bank::summary: iter().map(|acc| acc.summary()).collect()
BankSummary(accounts) == [k \in 1..Len(accounts) |-> AccountSummary(accounts[k])]

Holders == <<"Alice", "Bob">>
Amounts == {-1, 0, 400, I32_MAX}

RemoveAt(s, i) == SubSeq(s, 1, i - 1) \o SubSeq(s, i + 1, Len(s))

\* let bank = Bank::new(): an empty account vector; no account exists yet
InitBank ==
    /\ build \in Builds
    /\ panicked = ""
    /\ ops = 0
    /\ lastOp = "none"
    /\ lastN = 0
    /\ cards = <<>>
    /\ hands = <<>>
    /\ preCards = <<>>
    /\ preHands = <<>>
    /\ locals = <<>>
    /\ bank = <<>>
    /\ preLocals = <<>>
    /\ preBank = <<>>
    /\ lastIdx = 0
    /\ retInt = 0
    /\ retStrs = <<>>
    /\ printed = ""

\* what every bank call records of the state it starts from
Called(name, idx, n) ==
    /\ panicked = ""
    /\ lastOp' = name
    /\ lastIdx' = idx
    /\ lastN' = n
    /\ preLocals' = locals
    /\ preBank' = bank
    /\ UNCHANGED <<build, deckVars>>

\* let mut account = Account::new(id, holder);
NewAccount ==
    /\ Len(locals) + Len(bank) < MaxAccounts
    /\ LET id     == Len(locals) + Len(bank) + 1     \* ids 1, 2, .. as main assigns them
           holder == Holders[((id - 1) % Len(Holders)) + 1]
       IN  /\ locals' = Append(locals, AccountNew(id, holder))
           /\ Called("new", Len(locals) + 1, id)
    /\ UNCHANGED <<bank, panicked, ops, retInt, retStrs, printed>>

\* account.deposit(amount);
Deposit ==
    /\ ops < MaxTxns
    /\ \E i \in 1..Len(locals), amount \in Amounts :
          LET r == AccountDeposit(locals[i], amount, build)
          IN  /\ Called("deposit", i, amount)
              /\ panicked' = r.panic
              /\ locals' = [locals EXCEPT ![i] = r.acc]
              /\ retInt' = r.ret
              /\ printed' = r.out
    /\ ops' = ops + 1
    /\ UNCHANGED <<bank, retStrs>>

\* account.withdraw(amount);
Withdraw ==
    /\ ops < MaxTxns
    /\ \E i \in 1..Len(locals), amount \in Amounts :
          LET r == AccountWithdraw(locals[i], amount, build)
          IN  /\ Called("withdraw", i, amount)
              /\ panicked' = r.panic
              /\ locals' = [locals EXCEPT ![i] = r.acc]
              /\ retInt' = r.ret
              /\ printed' = r.out
    /\ ops' = ops + 1
    /\ UNCHANGED <<bank, retStrs>>

\* let s = account.summary();
Summarize ==
    /\ \E i \in 1..Len(locals) :
          /\ Called("account_summary", i, 0)
          /\ retStrs' = <<AccountSummary(locals[i])>>
    /\ printed' = ""
    /\ UNCHANGED <<locals, bank, panicked, ops, retInt>>

\* bank.add_account(account): the account is moved into the bank
AddAccount ==
    /\ \E i \in 1..Len(locals) :
          /\ Called("add_account", i, 0)
          /\ bank' = AddAccountTo(bank, locals[i])
          /\ locals' = RemoveAt(locals, i)
    /\ printed' = ""
    /\ UNCHANGED <<panicked, ops, retInt, retStrs>>

\* let total = bank.total_balance();
TotalBalance ==
    /\ Called("total_balance", 0, 0)
    /\ LET r == BankTotalBalance(bank, build)
       IN  /\ panicked' = r.panic
           /\ retInt' = r.val
    /\ printed' = ""
    /\ UNCHANGED <<locals, bank, ops, retStrs>>

\* let summaries = bank.summary();
Summary ==
    /\ Called("summary", 0, 0)
    /\ retStrs' = BankSummary(bank)
    /\ printed' = ""
    /\ UNCHANGED <<locals, bank, panicked, ops, retInt>>

NextBank ==
    \/ NewAccount
    \/ Deposit
    \/ Withdraw
    \/ Summarize
    \/ AddAccount
    \/ TotalBalance
    \/ Summary

SpecBank == InitBank /\ [][NextBank]_vars

\* ---------------------------------------------------------------- bank claims
\* x = a + b over the integers, compared in 16-bit halves so that no
\* intermediate value leaves the range of the checker's arithmetic
IsSumOf(x, a, b) ==
    LET lo == (a % 65536) + (b % 65536)
        hi == (a \div 65536) + (b \div 65536) + (lo \div 65536)
    IN  /\ x % 65536 = lo % 65536
        /\ x \div 65536 = hi

RECURSIVE LowHalves(_)
LowHalves(accounts) ==
    IF accounts = <<>> THEN 0
    ELSE (Head(accounts).balance % 65536) + LowHalves(Tail(accounts))

RECURSIVE HighHalves(_)
HighHalves(accounts) ==
    IF accounts = <<>> THEN 0
    ELSE (Head(accounts).balance \div 65536) + HighHalves(Tail(accounts))

\* x is the sum over the integers of the balances of `accounts`
IsTotalOf(x, accounts) ==
    /\ x % 65536 = LowHalves(accounts) % 65536
    /\ x \div 65536 = HighHalves(accounts) + (LowHalves(accounts) \div 65536)

\* C1: in every state reached by deposit and withdraw calls the balance of
\* every account is non-negative.
C1_BalanceNeverNegative ==
    /\ \A k \in 1..Len(locals) : locals[k].balance >= 0
    /\ \A k \in 1..Len(bank) : bank[k].balance >= 0

\* C2: withdraw(a) on balance b: if a > b the balance stays b, b is returned
\* and the program continues with a printed notice; if a <= b the balance
\* becomes b - a, which is returned.
C2_WithdrawGuard ==
    lastOp = "withdraw" =>
        LET b   == preLocals[lastIdx].balance
            a   == lastN
            now == locals[lastIdx].balance
        IN  /\ panicked = ""
            /\ IF a > b
               THEN /\ now = b
                    /\ retInt = b
                    /\ printed # ""
               ELSE /\ IsSumOf(b, now, a)
                    /\ retInt = now

\* C7: deposit(a) with a >= 0 on balance b sets the balance to exactly b + a
\* and returns the new balance.
C7_DepositAddsExactly ==
    (lastOp = "deposit" /\ lastN >= 0) =>
        LET b   == preLocals[lastIdx].balance
            now == locals[lastIdx].balance
        IN  /\ panicked = ""
            /\ IsSumOf(now, b, lastN)
            /\ retInt = now

\* C8: total_balance() is the sum of the balances of the accounts added so
\* far (0 for an empty bank) and summary() returns, in insertion order, each
\* account's own summary().
C8_BankAggregates ==
    /\ lastOp = "total_balance" =>
           /\ panicked = ""
           /\ IsTotalOf(retInt, bank)
    /\ lastOp = "summary" =>
           /\ Len(retStrs) = Len(bank)
           /\ \A k \in 1..Len(bank) : retStrs[k] = AccountSummary(bank[k])

\* C10: add_account(a) places a as the last account, grows the collection by
\* one and leaves the earlier accounts and their order unchanged;
\* total_balance() and summary() leave the bank's accounts unchanged.
C10_AddAccountAppends ==
    /\ lastOp = "add_account" =>
           /\ Len(bank) = Len(preBank) + 1
           /\ bank[Len(bank)] = preLocals[lastIdx]
           /\ \A k \in 1..Len(preBank) : bank[k] = preBank[k]
    /\ lastOp \in {"total_balance", "summary"} => bank = preBank

C10_Witness ==
    /\ lastOp = "add_account"
    /\ Len(preBank) = 1
    /\ Len(bank) = 2
    /\ bank[1].id = 2
    /\ bank[2].id = 1
    /\ bank[1].balance = 400


\* ---------------------------------------------------------------- deck claims
NumCards == Len(suits) * Len(values)

\* C3: deal(n) with 0 <= n <= s returns exactly the last n cards of the deck
\* in their original order and leaves the deck as its former first s - n cards.
C3_DealReturnsLastN ==
    (lastOp = "deal" /\ lastN >= 0 /\ lastN <= Len(preCards)) =>
        LET s == Len(preCards)
            n == lastN
        IN  /\ panicked = ""
            /\ Len(hands) = Len(preHands) + 1
            /\ Len(hands[Len(hands)]) = n
            /\ \A k \in 1..n : hands[Len(hands)][k] = preCards[s - n + k]
            /\ Len(cards) = s - n
            /\ \A k \in 1..(s - n) : cards[k] = preCards[k]
            /\ (s = NumCards => Len(cards) = 52 - n)

C3_Witness ==
    /\ lastOp = "deal"
    /\ lastN = 5
    /\ Len(preCards) = 52
    /\ preCards # DeckNew
    /\ panicked = ""
    /\ Len(cards) = 47

\* C4: deal(n) with n greater than the deck size panics: no hand is returned
\* (neither a truncated nor an empty one) and the program ends; deal(52) then
\* deal(1) on a fresh deck fails on the second call.
C4_DealTooManyPanics ==
    (lastOp = "deal" /\ lastN > Len(preCards)) =>
        /\ panicked # ""
        /\ hands = preHands
        /\ cards = preCards
        /\ ~ENABLED NextDeck

C4_Witness ==
    /\ lastOp = "deal"
    /\ lastN = 1
    /\ preCards = <<>>
    /\ Len(hands) = 1
    /\ Len(hands[1]) = 52
    /\ ops = 2
    /\ panicked # ""

\* C5: Deck::new() yields exactly 52 cards without duplicates, the card at
\* index 13*i + j being "<values[j]> of <suits[i]>" (suit-major, value-minor).
C5_NewDeckIsSuitMajor ==
    lastOp = "new" =>
        LET ss == <<"hearts", "spades", "clubs", "diamonds">>
            vs == <<"ace", "two", "three", "four", "five", "six", "seven",
                    "eight", "nine", "ten", "jack", "queen", "king">>
        IN  /\ Len(cards) = 52
            /\ Cardinality(Range(cards)) = 52
            /\ \A i \in 0..3 : \A j \in 0..12 :
                   cards[13 * i + j + 1] = vs[j + 1] \o " of " \o ss[i + 1]

C5_Witness ==
    /\ lastOp = "new"
    /\ Len(cards) = 52
    /\ cards[1] = "ace of hearts"
    /\ cards[14] = "ace of spades"
    /\ cards[52] = "king of diamonds"

\* C6: shuffle() changes only the order of the cards: the multiset of cards
\* and the deck size are the same before and after, whatever the random picks.
C6_ShuffleIsPermutation ==
    lastOp = "shuffle" =>
        /\ Len(cards) = Len(preCards)
        /\ \A c \in Range(cards) \cup Range(preCards) :
               Count(c, cards) = Count(c, preCards)
        /\ hands = preHands
        /\ panicked = ""

C6_Witness ==
    /\ lastOp = "shuffle"
    /\ Len(cards) = 47
    /\ cards # preCards
    /\ Range(cards) = Range(preCards)

\* C9: after any sequence of shuffle() and deal(n) calls on a new deck, the
\* cards in the deck and the cards of all hands dealt so far are pairwise
\* disjoint and together are the 52 generated cards, each exactly once; the
\* deck size is 52 minus the number of cards dealt.
C9_CardsConserved ==
    lastOp # "none" =>
        LET dealt == Flatten(hands)
            all   == cards \o dealt
        IN  /\ Len(cards) = 52 - Len(dealt)
            /\ Range(all) = Range(DeckNew)
            /\ \A c \in Range(DeckNew) : Count(c, all) = 1
            /\ Range(cards) \cap Range(dealt) = {}
            /\ \A a, b \in 1..Len(hands) :
                   a # b => Range(hands[a]) \cap Range(hands[b]) = {}

C9_Witness ==
    /\ lastOp = "shuffle"
    /\ cards # preCards
    /\ Len(hands) = 2
    /\ Len(hands[1]) = 5
    /\ Len(hands[2]) = 1
    /\ Len(cards) = 46

====
